---- MODULE Spec2Model ----
(***************************************************************************)
(* Model of src/script.js: the interaction controller of the Mojik AI      *)
(* page.  The state is the part of the DOM the script reads and writes     *)
(* (classes, inline styles, form values, notification elements), the       *)
(* closure variables of the script (ticking, the observer's target list)   *)
(* and the browser's pending work (timers, animation frames, intersection  *)
(* entries).  Every handler of the script is one action.  The debounce and *)
(* throttle wrappers at the end of the file, which the script defines and  *)
(* does not use, are modelled with their own closure variables.            *)
(*                                                                         *)
(* Time is counted in steps of TickMs milliseconds: a timer holds the time *)
(* it still has to wait, Tick lowers every pending timer by TickMs, and a  *)
(* timer whose wait is 0 is due and must fire before time moves on.        *)
(***************************************************************************)
EXTENDS Integers, Sequences, FiniteSets, Bags, TLC

VARIABLES
    ready,            \* init() has run (DOMContentLoaded was delivered)
    present,          \* page elements and window features that exist
    uncaught,         \* some handler ended with an uncaught exception
    scrollY,          \* window.scrollY
    ticking,          \* closure variable of the scroll listener
    rafPending,       \* number of requested animation frames not yet run
    headerScrolled,   \* header carries 'header--scrolled'
    backToTopVisible, \* button carries 'footer__back-to-top--visible'
    heroBgY,          \* hero backgroundPositionY, in tenths of a pixel
    modalActive,      \* modal carries 'modal--active'
    bodyOverflow,     \* document.body.style.overflow
    focused,          \* the element holding input focus
    nameValue,        \* value of the form's text input
    emailValue,       \* value of the form's email input
    notifications,    \* every notification element created so far, by id
    attached,         \* ids of the notification elements in the body, in order
    faded,            \* ids of the notification elements with opacity '0'
    timers,           \* bag of pending setTimeout callbacks
    lastCalls,        \* the last two modal calls (history)
    preOpenOverflow,  \* body overflow when openModal was last called (history)
    observed,         \* targets the IntersectionObserver still observes
    queue,            \* intersection entries queued for the next callback
    isIntersecting,   \* current intersection state of every reveal element
    animationDelay,   \* style.animationDelay of every reveal element (ms, -1 unset)
    animateIn,        \* reveal elements carrying 'animate-in'
    writes,           \* how often the callback wrote each element (history)
    hiddenStyle,      \* reveal elements given the initial opacity '0' style
    styleSheets,      \* number of <style> elements the script appended to the head
    anchorHref,       \* href of the anchor clicked last (history)
    defaultPrevented, \* defaultPrevented of the last anchor click event
    scrollRequest,    \* <<top>> of the last window.scrollTo call, <<>> before it
    dbTimeout,        \* debounce: closure variable timeout (0 while undefined)
    dbCalls,          \* debounce: argument of every call made so far (history)
    dbInvoked,        \* debounce: argument of every invocation of func (history)
    inThrottle,       \* throttle: closure variable inThrottle (FALSE while undefined)
    thCalls,          \* throttle: argument of every call made so far (history)
    thInvoked         \* throttle: argument of every invocation of func (history)

vars == <<ready, present, uncaught, scrollY, ticking, rafPending, headerScrolled,
          backToTopVisible, heroBgY, modalActive, bodyOverflow, focused,
          nameValue, emailValue, notifications, attached, faded, timers,
          lastCalls, preOpenOverflow, observed, queue, isIntersecting,
          animationDelay, animateIn, writes, hiddenStyle, styleSheets,
          anchorHref, defaultPrevented, scrollRequest,
          dbTimeout, dbCalls, dbInvoked, inThrottle, thCalls, thInvoked>>

scrollVars == <<scrollY, ticking, rafPending, headerScrolled, backToTopVisible, heroBgY>>
modalVars  == <<modalActive, bodyOverflow, focused, lastCalls, preOpenOverflow>>
formVars   == <<nameValue, emailValue>>
notifVars  == <<notifications, attached, faded, styleSheets>>
revealVars == <<observed, queue, isIntersecting, animationDelay, animateIn, writes, hiddenStyle>>
anchorVars == <<anchorHref, defaultPrevented, scrollRequest>>
utilVars   == <<dbTimeout, dbCalls, dbInvoked, inThrottle, thCalls, thInvoked>>

----------------------------------------------------------------------------
(* Configuration and bounds *)

scrollThreshold == 100
animationDelayMs == 100
FocusDelay == 300
CloseDelay == 1500
NotificationVisible == 3000
NotificationFade == 300
ParallaxSpeedTenths == 5

TickMs == FocusDelay
MaxScroll == 400
ViewportHeight == 200
NumReveal == 3
MaxQueue == 3
MaxNotifications == 2
MaxTimers == 3
MaxLen == 5
MaxHeaderHeight == 80
MaxCalls == 3

Elements == {"header", "backToTop", "modal", "modalOverlay", "modalClose",
             "waitlistForm", "textInput", "emailInput", "modalInput",
             "modalTrigger", "hero", "IntersectionObserver", "section"}

ScrollOffsets == {0, scrollThreshold - 1, scrollThreshold, scrollThreshold + 1,
                  3 * scrollThreshold - 1, 3 * scrollThreshold,
                  3 * scrollThreshold + 1, MaxScroll}

RevealElems == 1 .. NumReveal

----------------------------------------------------------------------------
(* Scroll-state watcher *)

\* handleHeaderScroll, lines 48-56: the class state it leaves on the header
handleHeaderScroll(y) == y > scrollThreshold

\* handleBackToTopVisibility, lines 67-75
handleBackToTopVisibility_ge(y) == y >= scrollThreshold * 3
handleBackToTopVisibility(y) == y > scrollThreshold * 3

\* handleParallax, lines 333-341: the hero's backgroundPositionY after the call
handleParallax(y, old) ==
    IF "hero" \in present /\ y < ViewportHeight THEN y * ParallaxSpeedTenths ELSE old

\* elements.header.classList of a missing header: TypeError
headerThrows == "header" \notin present
backToTopThrows == "backToTop" \notin present

\* the two unguarded updates in sequence, as init() (431-432) and the frame
\* callback (374-375) call them; the second does not run when the first throws
ScrollUpdate ==
    /\ headerScrolled' = IF headerThrows THEN headerScrolled ELSE handleHeaderScroll(scrollY)
    /\ backToTopVisible' = IF headerThrows \/ backToTopThrows THEN backToTopVisible
                           ELSE handleBackToTopVisibility(scrollY)

ScrollUpdateThrows == headerThrows \/ backToTopThrows

\* the scroll listener, lines 371-381
ScrollListener ==
    IF ~ticking
    THEN /\ rafPending' = rafPending + 1
         /\ ticking' = TRUE
    ELSE UNCHANGED <<rafPending, ticking>>

\* a scroll event: the page moves to offset y and the listener runs
Scroll(y) ==
    /\ ready
    /\ y # scrollY
    /\ scrollY' = y
    /\ ScrollListener
    /\ UNCHANGED <<anchorVars, utilVars, ready, present, uncaught, headerScrolled, backToTopVisible, heroBgY>>
    /\ UNCHANGED <<modalVars, formVars, notifVars, timers, revealVars>>

\* the requestAnimationFrame callback, lines 373-378; an exception thrown by
\* one of the updates leaves the rest of the callback, ticking = false
\* included, undone
AnimationFrame ==
    /\ ready
    /\ rafPending > 0
    /\ rafPending' = rafPending - 1
    /\ ScrollUpdate
    /\ heroBgY' = IF ScrollUpdateThrows THEN heroBgY ELSE handleParallax(scrollY, heroBgY)
    /\ ticking' = IF ScrollUpdateThrows THEN ticking ELSE FALSE
    /\ uncaught' = (uncaught \/ ScrollUpdateThrows)
    /\ UNCHANGED <<anchorVars, utilVars, ready, present, scrollY>>
    /\ UNCHANGED <<modalVars, formVars, notifVars, timers, revealVars>>

----------------------------------------------------------------------------
(* Reveal animator *)

\* the entries an observer queues for its targets when observation starts:
\* one per target, in the order of observe(), lines 258-263
InitialEntries ==
    [i \in 1 .. NumReveal |-> [target |-> i, isIntersecting |-> isIntersecting[i]]]

\* setupScrollAnimations, lines 228-274
setupScrollAnimations ==
    IF "IntersectionObserver" \notin present
    THEN UNCHANGED <<observed, queue, hiddenStyle, styleSheets>>
    ELSE /\ hiddenStyle' = RevealElems
         /\ observed' = RevealElems
         /\ queue' = InitialEntries
         /\ styleSheets' = styleSheets + 1

\* the delay written for the entry at (1-based) position i of batch q, line 245:
\* forEach's index counts every entry of the batch
StaggerDelay(q, i) == (i - 1) * animationDelayMs

\* positions of the intersecting entries of batch q, line 243
Intersecting(q) == {i \in 1 .. Len(q) : q[i].isIntersecting}

\* observer.unobserve(entry.target), line 247
Unobserve_Nothing(obs, ts) == obs
Unobserve(obs, ts) == obs \ ts

\* the observer's callback on the queued batch, lines 241-250
ObserverCallback ==
    /\ ready
    /\ queue # <<>>
    /\ LET hit == Intersecting(queue)
           targets == {queue[i].target : i \in hit}
           pos(t) == CHOOSE i \in hit : queue[i].target = t
       IN /\ animationDelay' = [e \in RevealElems |->
                 IF e \in targets THEN StaggerDelay(queue, pos(e)) ELSE animationDelay[e]]
          /\ animateIn' = animateIn \cup targets
          /\ observed' = Unobserve(observed, targets)
          /\ writes' = [e \in RevealElems |->
                 IF e \in targets THEN writes[e] + 1 ELSE writes[e]]
    /\ queue' = <<>>
    /\ UNCHANGED <<anchorVars, utilVars, ready, present, uncaught, isIntersecting, hiddenStyle>>
    /\ UNCHANGED <<scrollVars, modalVars, formVars, notifVars, timers>>

\* the page moves and element e crosses the visibility threshold; the browser
\* queues an entry when e is an observed target.  The callback is delivered
\* before the same target crosses again, so a batch holds a target once.
IntersectionChange(e) ==
    /\ ready
    /\ \A i \in 1 .. Len(queue) : queue[i].target # e
    /\ e \in observed => Len(queue) < MaxQueue
    /\ isIntersecting' = [isIntersecting EXCEPT ![e] = ~isIntersecting[e]]
    /\ queue' = IF e \in observed
                THEN Append(queue, [target |-> e, isIntersecting |-> ~isIntersecting[e]])
                ELSE queue
    /\ UNCHANGED <<anchorVars, utilVars, ready, present, uncaught, observed, animationDelay, animateIn, writes, hiddenStyle>>
    /\ UNCHANGED <<scrollVars, modalVars, formVars, notifVars, timers>>

----------------------------------------------------------------------------
(* Smooth scroll for anchor links *)

\* the href of the a[href^="#"] links of the page, line 285
Hrefs == {"#", "#section"}

\* document.querySelector(targetId), line 292: the element found, if any
querySelector(h) == IF h = "#section" /\ "section" \in present THEN {"section"} ELSE {}

\* header.offsetHeight and targetElement.offsetTop as the click may find them
HeaderHeights == {0, MaxHeaderHeight}
TargetOffsets == {0, MaxHeaderHeight - 1, MaxScroll}

\* targetPosition, line 298
targetPosition(top, hh) == top - hh

\* the click listener of an anchor with href h, lines 286-305, the header
\* being hh high and the target top pixels down the page
AnchorClick(h, hh, top) ==
    /\ ready
    /\ anchorHref' = h
    /\ IF h = "#" \/ querySelector(h) = {}
       THEN /\ defaultPrevented' = FALSE
            /\ UNCHANGED <<scrollRequest, uncaught>>
       ELSE /\ defaultPrevented' = TRUE
            /\ IF headerThrows
               THEN /\ uncaught' = TRUE
                    /\ UNCHANGED scrollRequest
               ELSE /\ scrollRequest' = <<targetPosition(top, hh)>>
                    /\ UNCHANGED uncaught
    /\ UNCHANGED <<utilVars, ready, present, timers>>
    /\ UNCHANGED <<scrollVars, modalVars, formVars, notifVars, revealVars>>

----------------------------------------------------------------------------
(* Timers *)

Timer(k, d, n) == [kind |-> k, rem |-> d, id |-> n]

\* setTimeout(callback, d): one more pending callback; the script keeps no
\* handle of it and never calls clearTimeout on it
setTimeout_Replace(ts, k, d, n) ==
    LET kept == {t \in BagToSet(ts) : t.kind # k}
    IN [t \in kept |-> ts[t]] (+) SetToBag({Timer(k, d, n)})
setTimeout(ts, k, d, n) == ts (+) SetToBag({Timer(k, d, n)})

Pending(k) == {t \in BagToSet(timers) : t.kind = k}

Due == {t \in BagToSet(timers) : t.rem = 0}

\* the bag of timers after TickMs milliseconds have passed
Elapse(ts) ==
    LET later(t) == Timer(t.kind, t.rem - TickMs, t.id)
        sooner(t) == Timer(t.kind, t.rem + TickMs, t.id)
    IN [t \in {later(u) : u \in BagToSet(ts)} |-> ts[sooner(t)]]

\* the last two modal calls
Last2(calls) == IF Len(calls) <= 2 THEN calls ELSE Tail(calls)

----------------------------------------------------------------------------
(* Modal manager *)

\* elements.modal.classList of a missing modal: TypeError
modalThrows == "modal" \notin present

\* openModal, lines 96-105: the style written to the body
openModalOverflow_Keep(old) == old
openModalOverflow(old) == "hidden"

\* closeModal, lines 111-114: the style written to the body
closeModalOverflow_Keep(old) == old
closeModalOverflow(old) == ""

\* closeModal, lines 111-114: the 'modal--active' class after the call
closeModalActive_Keep(old) == old
closeModalActive(old) == FALSE

\* openModal, lines 96-105
openModal ==
    /\ lastCalls' = Last2(Append(lastCalls, "open"))
    /\ preOpenOverflow' = bodyOverflow
    /\ IF modalThrows
       THEN /\ uncaught' = TRUE
            /\ UNCHANGED <<modalActive, bodyOverflow, timers>>
       ELSE /\ modalActive' = TRUE
            /\ bodyOverflow' = openModalOverflow(bodyOverflow)
            /\ timers' = IF "modalInput" \in present
                         THEN setTimeout(timers, "focus", FocusDelay, 0)
                         ELSE timers
            /\ UNCHANGED uncaught

\* closeModal, lines 111-114
closeModal ==
    /\ lastCalls' = Last2(Append(lastCalls, "close"))
    /\ UNCHANGED preOpenOverflow
    /\ IF modalThrows
       THEN /\ uncaught' = TRUE
            /\ UNCHANGED <<modalActive, bodyOverflow>>
       ELSE /\ modalActive' = closeModalActive(modalActive)
            /\ bodyOverflow' = closeModalOverflow(bodyOverflow)
            /\ UNCHANGED uncaught

\* a click on a [data-modal="waitlist"] control, lines 389-391
TriggerClick ==
    /\ ready
    /\ "modalTrigger" \in present
    /\ BagCardinality(timers) < MaxTimers
    /\ openModal
    /\ UNCHANGED <<anchorVars, utilVars, ready, present, focused>>
    /\ UNCHANGED <<scrollVars, formVars, notifVars, revealVars>>

\* a click on the close control, lines 394-396
CloseClick ==
    /\ ready
    /\ "modalClose" \in present
    /\ closeModal
    /\ UNCHANGED <<anchorVars, utilVars, ready, present, focused, timers>>
    /\ UNCHANGED <<scrollVars, formVars, notifVars, revealVars>>

\* a click on the overlay, lines 399-401
OverlayClick ==
    /\ ready
    /\ "modalOverlay" \in present
    /\ closeModal
    /\ UNCHANGED <<anchorVars, utilVars, ready, present, focused, timers>>
    /\ UNCHANGED <<scrollVars, formVars, notifVars, revealVars>>

Keys == {"Escape", "Enter"}

\* handleKeyboard, lines 318-323, on a keydown of key k
handleKeyboard_AnyKey(k) ==
    /\ ready
    /\ k \in Keys
    /\ IF modalThrows
       THEN /\ uncaught' = TRUE
            /\ UNCHANGED modalVars
       ELSE IF modalActive
            THEN closeModal /\ UNCHANGED focused
            ELSE UNCHANGED <<modalVars, uncaught>>
    /\ UNCHANGED <<anchorVars, utilVars, ready, present, timers>>
    /\ UNCHANGED <<scrollVars, formVars, notifVars, revealVars>>
handleKeyboard(k) ==
    /\ ready
    /\ k \in Keys
    /\ IF k # "Escape"
       THEN UNCHANGED <<modalVars, uncaught>>
       ELSE IF modalThrows
            THEN /\ uncaught' = TRUE
                 /\ UNCHANGED modalVars
            ELSE IF modalActive
                 THEN closeModal /\ UNCHANGED focused
                 ELSE UNCHANGED <<modalVars, uncaught>>
    /\ UNCHANGED <<anchorVars, utilVars, ready, present, timers>>
    /\ UNCHANGED <<scrollVars, formVars, notifVars, revealVars>>

----------------------------------------------------------------------------
(* Notification emitter *)

Notification(m, t) == [message |-> m, type |-> t]

\* document.querySelector('.notification') and remove(), lines 164-167: the
\* first attached notification leaves the body
RemoveExisting_Never(att) == att
RemoveExisting(att) == IF att = <<>> THEN att ELSE Tail(att)

\* notification.remove(), line 216: element n leaves the body if it is there
Detach_Nothing(att, n) == att
Detach_First(att, n) == IF att = <<>> THEN att ELSE Tail(att)
Detach(att, n) == SelectSeq(att, LAMBDA x : x # n)

\* showNotification(m, t), lines 162-218, on timer bag ts
showNotification(m, t, ts) ==
    LET n == Len(notifications) + 1
    IN /\ notifications' = Append(notifications, Notification(m, t))
       /\ attached' = Append(RemoveExisting(attached), n)
       /\ styleSheets' = styleSheets + 1
       /\ timers' = setTimeout(ts, "fade", NotificationVisible, n)
       /\ UNCHANGED faded

----------------------------------------------------------------------------
(* Form validator *)

Chars == {"a", "@", ".", " "}

Strings(n) == UNION {[1 .. k -> Chars] : k \in 0 .. n}

\* [^\s@], line 135
NotSpaceAt(c) == c \notin {" ", "@"}

\* /^[^\s@]+@[^\s@]+\.[^\s@]+$/.test(s), lines 135-136: s splits into a
\* non-empty run, "@", a non-empty run, ".", a non-empty run
emailRegexTest_Always(s) == TRUE
emailRegexTest(s) ==
    \E p \in 1 .. Len(s), d \in 1 .. Len(s) :
        /\ s[p] = "@"
        /\ s[d] = "."
        /\ 1 < p
        /\ p + 1 < d
        /\ d < Len(s)
        /\ \A i \in (1 .. Len(s)) \ {p, d} : NotSpaceAt(s[i])

MsgFill == "Please fill in all fields"
MsgEmail == "Please enter a valid email address"
\* line 145, without its trailing emoji
MsgWelcome == "Welcome to the Mojik family!"

\* the inputs handleFormSubmit reads at lines 125-126 exist
inputsThrow == "textInput" \notin present \/ "emailInput" \notin present

\* !name || !email, line 129
fieldsMissing_And(n, e) == n = <<>> /\ e = <<>>
fieldsMissing(n, e) == n = <<>> \/ e = <<>>

\* handleFormSubmit, lines 120-150
handleFormSubmit ==
    /\ ready
    /\ "waitlistForm" \in present
    /\ Len(notifications) < MaxNotifications
    /\ BagCardinality(timers) + 2 <= MaxTimers
    /\ IF inputsThrow
       THEN /\ uncaught' = TRUE
            /\ UNCHANGED <<formVars, notifVars, timers>>
       ELSE /\ UNCHANGED uncaught
            /\ IF fieldsMissing(nameValue, emailValue)
               THEN /\ showNotification(MsgFill, "error", timers)
                    /\ UNCHANGED formVars
               ELSE IF ~emailRegexTest(emailValue)
                    THEN /\ showNotification(MsgEmail, "error", timers)
                         /\ UNCHANGED formVars
                    ELSE /\ showNotification(MsgWelcome, "success",
                                             setTimeout(timers, "close", CloseDelay, 0))
                         /\ nameValue' = <<>>
                         /\ emailValue' = <<>>
    /\ UNCHANGED <<anchorVars, utilVars, ready, present>>
    /\ UNCHANGED <<scrollVars, modalVars, revealVars>>

\* the user edits the text field
TypeName(n) ==
    /\ ready
    /\ {"waitlistForm", "textInput"} \subseteq present
    /\ n # nameValue
    /\ nameValue' = n
    /\ UNCHANGED <<anchorVars, utilVars, ready, present, uncaught, emailValue, timers>>
    /\ UNCHANGED <<scrollVars, modalVars, notifVars, revealVars>>

\* the user edits the email field
TypeEmail(e) ==
    /\ ready
    /\ {"waitlistForm", "emailInput"} \subseteq present
    /\ e # emailValue
    /\ emailValue' = e
    /\ UNCHANGED <<anchorVars, utilVars, ready, present, uncaught, nameValue, timers>>
    /\ UNCHANGED <<scrollVars, modalVars, notifVars, revealVars>>

----------------------------------------------------------------------------
(* Timer callbacks *)

\* the callback of due timer t runs: line 103 (focus), line 149 (close),
\* lines 212-217 (fade), line 216 (detach)
TimerFire(t) ==
    /\ t \in Due
    /\ LET rest == timers (-) SetToBag({t})
       IN CASE t.kind = "focus" ->
                 /\ focused' = "modalInput"
                 /\ timers' = rest
                 /\ UNCHANGED <<modalActive, bodyOverflow, lastCalls, preOpenOverflow>>
                 /\ UNCHANGED <<uncaught, notifVars>>
            [] t.kind = "close" ->
                 /\ closeModal
                 /\ timers' = rest
                 /\ UNCHANGED <<focused, notifVars>>
            [] t.kind = "fade" ->
                 /\ faded' = faded \cup {t.id}
                 /\ timers' = setTimeout(rest, "detach", NotificationFade, t.id)
                 /\ UNCHANGED <<notifications, attached, styleSheets, uncaught, modalVars>>
            [] t.kind = "detach" ->
                 /\ attached' = Detach(attached, t.id)
                 /\ timers' = rest
                 /\ UNCHANGED <<notifications, faded, styleSheets, uncaught, modalVars>>
    /\ UNCHANGED <<anchorVars, utilVars, ready, present>>
    /\ UNCHANGED <<scrollVars, formVars, revealVars>>

\* TickMs milliseconds pass; every callback that was due has run
Tick ==
    /\ timers # EmptyBag
    /\ Due = {}
    /\ timers' = Elapse(timers)
    /\ UNCHANGED <<anchorVars, utilVars, ready, present, uncaught>>
    /\ UNCHANGED <<scrollVars, modalVars, formVars, notifVars, revealVars>>

----------------------------------------------------------------------------
(* Debounce and throttle utilities *)

\* what the callers pass to the wrapped function
Args == {"x", "y"}

\* the wait and the limit the wrapper was made with: two steps of time
DebounceWait == 2 * TickMs
ThrottleLimit == 2 * TickMs

\* clearTimeout(h), lines 458 and 461: the pending timer with handle h, if
\* there is one, is cancelled; 0 stands for undefined and cancels nothing
clearTimeout_Nothing(ts, k, h) == ts
clearTimeout(ts, k, h) ==
    LET kept == {t \in BagToSet(ts) : ~(t.kind = k /\ t.id = h)}
    IN [t \in kept |-> ts[t]]

\* executedFunction(a) of debounce, lines 456-463: the handle of the new
\* timer is the number of the call
DebounceCall(a) ==
    /\ Len(dbCalls) < MaxCalls
    /\ dbCalls' = Append(dbCalls, a)
    /\ timers' = setTimeout(clearTimeout(timers, "later", dbTimeout),
                            "later", DebounceWait, Len(dbCalls) + 1)
    /\ dbTimeout' = Len(dbCalls) + 1
    /\ UNCHANGED <<dbInvoked, inThrottle, thCalls, thInvoked>>
    /\ UNCHANGED <<anchorVars, ready, present, uncaught>>
    /\ UNCHANGED <<scrollVars, modalVars, formVars, notifVars, revealVars>>

\* later, lines 457-460, run by due timer t: it calls func with the
\* arguments of the call that made the timer
DebounceLater(t) ==
    /\ t \in Due
    /\ t.kind = "later"
    /\ timers' = clearTimeout(timers (-) SetToBag({t}), "later", dbTimeout)
    /\ dbInvoked' = Append(dbInvoked, dbCalls[t.id])
    /\ UNCHANGED <<dbTimeout, dbCalls, inThrottle, thCalls, thInvoked>>
    /\ UNCHANGED <<anchorVars, ready, present, uncaught>>
    /\ UNCHANGED <<scrollVars, modalVars, formVars, notifVars, revealVars>>

\* !inThrottle, line 476; the latch is undefined, read as false, until the
\* first call
ThrottleOpen_Always(latch) == TRUE
ThrottleOpen(latch) == ~latch

\* executedFunction(a) of throttle, lines 475-481
ThrottleCall(a) ==
    /\ Len(thCalls) < MaxCalls
    /\ thCalls' = Append(thCalls, a)
    /\ IF ThrottleOpen(inThrottle)
       THEN /\ thInvoked' = Append(thInvoked, a)
            /\ inThrottle' = TRUE
            /\ timers' = setTimeout(timers, "latch", ThrottleLimit, 0)
       ELSE UNCHANGED <<thInvoked, inThrottle, timers>>
    /\ UNCHANGED <<dbTimeout, dbCalls, dbInvoked>>
    /\ UNCHANGED <<anchorVars, ready, present, uncaught>>
    /\ UNCHANGED <<scrollVars, modalVars, formVars, notifVars, revealVars>>

\* () => inThrottle = false, line 479, run by due timer t
ThrottleReset(t) ==
    /\ t \in Due
    /\ t.kind = "latch"
    /\ inThrottle' = FALSE
    /\ timers' = timers (-) SetToBag({t})
    /\ UNCHANGED <<dbTimeout, dbCalls, dbInvoked, thCalls, thInvoked>>
    /\ UNCHANGED <<anchorVars, ready, present, uncaught>>
    /\ UNCHANGED <<scrollVars, modalVars, formVars, notifVars, revealVars>>

----------------------------------------------------------------------------
(* Initialization *)

\* init(), lines 417-436, run by the DOMContentLoaded listener of line 9:
\* the listeners are attached, the observer starts, then the two scroll
\* updates run unguarded
DOMContentLoaded ==
    /\ ~ready
    /\ ready' = TRUE
    /\ setupScrollAnimations
    /\ ScrollUpdate
    /\ uncaught' = (uncaught \/ ScrollUpdateThrows)
    /\ UNCHANGED <<anchorVars, utilVars, present, scrollY, ticking, rafPending, heroBgY>>
    /\ UNCHANGED <<isIntersecting, animationDelay, animateIn, writes>>
    /\ UNCHANGED <<modalVars, formVars, notifications, attached, faded, timers>>

\* the page before DOMContentLoaded: P the possible sets of present elements,
\* Y the scroll offsets the page may be restored at, N and E the values the
\* form fields may hold, V the visibility of the reveal elements
Boot(P, Y, N, E, V) ==
    /\ ready = FALSE
    /\ present \in P
    /\ uncaught = FALSE
    /\ scrollY \in Y
    /\ ticking = FALSE
    /\ rafPending = 0
    /\ headerScrolled = FALSE
    /\ backToTopVisible = FALSE
    /\ heroBgY = 0
    /\ modalActive = FALSE
    /\ bodyOverflow = ""
    /\ focused = "none"
    /\ nameValue \in N
    /\ emailValue \in E
    /\ notifications = <<>>
    /\ attached = <<>>
    /\ faded = {}
    /\ timers = EmptyBag
    /\ lastCalls = <<>>
    /\ preOpenOverflow = ""
    /\ observed = {}
    /\ queue = <<>>
    /\ isIntersecting \in V
    /\ animationDelay = [e \in RevealElems |-> -1]
    /\ animateIn = {}
    /\ writes = [e \in RevealElems |-> 0]
    /\ hiddenStyle = {}
    /\ styleSheets = 0
    /\ anchorHref = "none"
    /\ defaultPrevented = FALSE
    /\ scrollRequest = <<>>
    /\ dbTimeout = 0
    /\ dbCalls = <<>>
    /\ dbInvoked = <<>>
    /\ inThrottle = FALSE
    /\ thCalls = <<>>
    /\ thInvoked = <<>>

Without(S) == {Elements \ X : X \in SUBSET S}

----------------------------------------------------------------------------
(* The scroll watcher on its own *)

InitScroll ==
    Boot(Without({"header", "backToTop", "hero"}), ScrollOffsets,
         {<<>>}, {<<>>}, {[e \in RevealElems |-> FALSE]})

NextScroll ==
    \/ DOMContentLoaded
    \/ \E y \in ScrollOffsets : Scroll(y)
    \/ AnimationFrame

SpecScroll == InitScroll /\ [][NextScroll]_vars

(* The scroll watcher and the anchor links *)

InitAnchor ==
    Boot(Without({"header", "section"}), {0, MaxScroll},
         {<<>>}, {<<>>}, {[e \in RevealElems |-> FALSE]})

NextAnchor ==
    \/ DOMContentLoaded
    \/ \E y \in {0, MaxScroll} : Scroll(y)
    \/ AnimationFrame
    \/ \E h \in Hrefs, hh \in HeaderHeights, top \in TargetOffsets : AnchorClick(h, hh, top)

SpecAnchor == InitAnchor /\ [][NextAnchor]_vars

(* The reveal animator on its own *)

InitReveal ==
    Boot(Without({"IntersectionObserver"}), {0},
         {<<>>}, {<<>>}, [RevealElems -> BOOLEAN])

NextReveal ==
    \/ DOMContentLoaded
    \/ \E e \in RevealElems : IntersectionChange(e)
    \/ ObserverCallback

SpecReveal == InitReveal /\ [][NextReveal]_vars

(* The modal, the form and the notifications together *)

SampleNames == {<<>>, <<"a">>}
SampleEmails == {<<>>, <<"a", "@", "a", ".", "a">>}

InitModal ==
    Boot(Without({"modal", "modalInput"}), {0},
         {<<>>}, {<<>>}, {[e \in RevealElems |-> FALSE]})

NextModal ==
    \/ DOMContentLoaded
    \/ TriggerClick
    \/ CloseClick
    \/ OverlayClick
    \/ \E k \in Keys : handleKeyboard(k)
    \/ \E n \in SampleNames : TypeName(n)
    \/ \E e \in SampleEmails : TypeEmail(e)
    \/ handleFormSubmit
    \/ \E t \in BagToSet(timers) : TimerFire(t)
    \/ Tick

SpecModal == InitModal /\ [][NextModal]_vars

(* The modal and the ways to close it, on pages that may lack the close
   control and the overlay *)

InitKeys ==
    Boot(Without({"modal", "modalClose", "modalOverlay"}), {0},
         {<<>>}, {<<>>}, {[e \in RevealElems |-> FALSE]})

NextKeys ==
    \/ DOMContentLoaded
    \/ TriggerClick
    \/ CloseClick
    \/ OverlayClick
    \/ \E k \in Keys : handleKeyboard(k)
    \/ \E t \in BagToSet(timers) : TimerFire(t)
    \/ Tick

SpecKeys == InitKeys /\ [][NextKeys]_vars

(* One filled-in form: the fields hold what the user typed before the first
   event, and every later event is a click, a key, a submit or a timer.  Time
   passes and due timer callbacks run, as the browser's event loop ensures. *)

InitSubmit ==
    Boot(Without({"modal", "modalInput"}), {0},
         SampleNames, SampleEmails, {[e \in RevealElems |-> FALSE]})

NextSubmit ==
    \/ DOMContentLoaded
    \/ TriggerClick
    \/ CloseClick
    \/ OverlayClick
    \/ \E k \in Keys : handleKeyboard(k)
    \/ handleFormSubmit
    \/ \E t \in BagToSet(timers) : TimerFire(t)
    \/ Tick

SpecSubmit == InitSubmit /\ [][NextSubmit]_vars

LiveSubmit ==
    /\ SpecSubmit
    /\ WF_vars(Tick)
    /\ WF_vars(\E t \in BagToSet(timers) : TimerFire(t))

(* A form that does not validate: a field is empty or the email has no dot
   after the "@"; the events are those of the filled-in form *)

InvalidEmail == <<"a", "@", "a">>

InitInvalid ==
    Boot(Without({"modal", "modalInput"}), {0},
         SampleNames, {<<>>, InvalidEmail}, {[e \in RevealElems |-> FALSE]})

SpecInvalid == InitInvalid /\ [][NextSubmit]_vars

(* The form validator on every short field value *)

InitForm ==
    Boot(Without({"textInput", "emailInput"}), {0},
         SampleNames, Strings(MaxLen), {[e \in RevealElems |-> FALSE]})

NextForm ==
    \/ DOMContentLoaded
    \/ handleFormSubmit

SpecForm == InitForm /\ [][NextForm]_vars

(* A debounced function and its callers; time passes and due callbacks run *)

InitUtil ==
    Boot({Elements}, {0}, {<<>>}, {<<>>}, {[e \in RevealElems |-> FALSE]})

NextDebounce ==
    \/ \E a \in Args : DebounceCall(a)
    \/ \E t \in BagToSet(timers) : DebounceLater(t)
    \/ Tick

SpecDebounce == InitUtil /\ [][NextDebounce]_vars

LiveDebounce ==
    /\ SpecDebounce
    /\ WF_vars(Tick)
    /\ WF_vars(\E t \in BagToSet(timers) : DebounceLater(t))

(* A throttled function and its callers *)

NextThrottle ==
    \/ \E a \in Args : ThrottleCall(a)
    \/ \E t \in BagToSet(timers) : ThrottleReset(t)
    \/ Tick

SpecThrottle == InitUtil /\ [][NextThrottle]_vars

LiveThrottle ==
    /\ SpecThrottle
    /\ WF_vars(Tick)
    /\ WF_vars(\E t \in BagToSet(timers) : ThrottleReset(t))

----------------------------------------------------------------------------
(* Properties *)

\* C1 (as stated): after open() directly followed by close() the body
\* overflow style is the value it had when open() was called, whatever that
\* value was.
C1_OpenCloseRestoresPreOpen ==
    lastCalls = <<"open", "close">> => bodyOverflow = preOpenOverflow

\* C1 (amended): after open() directly followed by close() on an existing
\* modal the body overflow style is the empty string; that is the pre-open
\* value when the pre-open value was empty, and only then.
C1_OpenCloseClearsOverflow ==
    lastCalls = <<"open", "close">> =>
        /\ ~modalThrows => bodyOverflow = ""
        /\ modalThrows => bodyOverflow = preOpenOverflow
        /\ preOpenOverflow = "" => bodyOverflow = preOpenOverflow

\* open() on an already open modal (pre-open value 'hidden'), then close()
C1_Witness ==
    /\ lastCalls = <<"open", "close">>
    /\ "modal" \in present
    /\ preOpenOverflow = "hidden"
    /\ bodyOverflow = ""

\* C2: open() on an already open modal changes neither the modal class, nor
\* the body overflow, nor the pending timers; close() on a closed modal
\* changes none of them either.
C2_OpenCloseIdempotent ==
    [][ /\ (TriggerClick /\ modalActive) =>
               UNCHANGED <<modalActive, bodyOverflow, timers>>
        /\ (CloseClick /\ ~modalActive) =>
               UNCHANGED <<modalActive, bodyOverflow, timers>> ]_vars

\* C3: at most one notification element is attached to the body, and an
\* attached element is the one created by the latest showNotification call.
C3_OneNotification ==
    /\ Len(attached) <= 1
    /\ attached # <<>> => attached[1] = Len(notifications)

\* two calls with no time between them: both fade timers still have their
\* full delay, and the second element is the attached one
C3_Witness ==
    /\ Len(notifications) = 2
    /\ attached = <<2>>
    /\ Timer("fade", NotificationVisible, 1) \in BagToSet(timers)
    /\ Timer("fade", NotificationVisible, 2) \in BagToSet(timers)

\* the pattern as the claim words it: exactly one "@", no whitespace, text
\* before the "@", and after the "@" a "." with text on both of its sides
C4_Pattern(e) ==
    LET ats == {i \in 1 .. Len(e) : e[i] = "@"}
    IN /\ Cardinality(ats) = 1
       /\ \A i \in 1 .. Len(e) : e[i] # " "
       /\ \A p \in ats :
            /\ p > 1
            /\ \E d \in p + 2 .. Len(e) - 1 : e[d] = "."

C4_Expected(n, e) ==
    IF n = <<>> \/ e = <<>> THEN Notification(MsgFill, "error")
    ELSE IF ~C4_Pattern(e) THEN Notification(MsgEmail, "error")
    ELSE Notification(MsgWelcome, "success")

\* C4: a submit that reads its two fields emits exactly one notification:
\* the "fill in all fields" error if a field is empty, else the "valid
\* email" error if the email does not match the pattern, else the success
\* message; only the success schedules the close and resets the fields.
C4_ValidationOrdered ==
    [][ (handleFormSubmit /\ ~inputsThrow) =>
            LET out == C4_Expected(nameValue, emailValue)
            IN /\ notifications' = Append(notifications, out)
               /\ IF out.type = "success"
                  THEN /\ Pending("close")' # Pending("close")
                       /\ nameValue' = <<>> /\ emailValue' = <<>>
                  ELSE /\ Pending("close")' = Pending("close")
                       /\ UNCHANGED formVars ]_vars

\* a submit with a name and an email without a dot after the "@" was
\* answered by the "valid email" error
C4_Witness ==
    /\ nameValue = <<"a">>
    /\ emailValue = <<"a", "@", "a", "a">>
    /\ notifications # <<>>
    /\ notifications[Len(notifications)] = Notification(MsgEmail, "error")

C5_Success ==
    /\ handleFormSubmit
    /\ ~inputsThrow
    /\ ~fieldsMissing(nameValue, emailValue)
    /\ emailRegexTest(emailValue)

\* C5: a successful submit emits the success notification, clears the fields
\* and leaves the modal as it is, scheduling closeModal CloseDelay ms later;
\* the close timer's callback leaves the modal closed; and whenever a close
\* timer is pending, a later moment has every close timer run and the modal
\* closed.
C5_SuccessThenAutoClose ==
    /\ [][ C5_Success =>
            /\ notifications' = Append(notifications, Notification(MsgWelcome, "success"))
            /\ nameValue' = <<>> /\ emailValue' = <<>>
            /\ UNCHANGED <<modalActive, bodyOverflow>>
            /\ timers' = timers (+) SetToBag({Timer("close", CloseDelay, 0)})
                                (+) SetToBag({Timer("fade", NotificationVisible,
                                                    Len(notifications) + 1)}) ]_vars
    /\ [][ \A t \in Due : (t.kind = "close" /\ TimerFire(t)) => ~modalActive' ]_vars
    /\ (Pending("close") # {}) ~> (Pending("close") = {} /\ ~modalActive)

\* CloseDelay after a successful submit on a page with a modal: the close
\* timer has run (the notification still has NotificationVisible - CloseDelay
\* to go) and the modal, opened before, is closed
C5_Witness ==
    /\ "modal" \in present
    /\ lastCalls = <<"open", "close">>
    /\ ~modalActive
    /\ Pending("close") = {}
    /\ \E n \in 1 .. Len(notifications) :
         /\ notifications[n].type = "success"
         /\ Timer("fade", NotificationVisible - CloseDelay, n) \in BagToSet(timers)

\* C6: when handleHeaderScroll has run at offset s the header carries
\* 'scrolled' iff s > scrollThreshold, and when handleBackToTopVisibility
\* has run at offset s the button is visible iff s > 3 * scrollThreshold.
C6_ThresholdClasses ==
    [][ (AnimationFrame \/ DOMContentLoaded) =>
            /\ ~headerThrows => (headerScrolled' <=> scrollY > scrollThreshold)
            /\ ~ScrollUpdateThrows =>
                   (backToTopVisible' <=> scrollY > 3 * scrollThreshold) ]_vars

\* the update has run at the boundary offset 3 * scrollThreshold
C6_Witness ==
    /\ ready
    /\ {"header", "backToTop"} \subseteq present
    /\ scrollY = 3 * scrollThreshold
    /\ ~ticking /\ rafPending = 0
    /\ headerScrolled
    /\ ~backToTopVisible

\* C7: an element is written by the callback at most once; it carries
\* 'animate-in' exactly when it was written, and is then no longer observed;
\* a revealed element keeps its class and its delay for ever; an entry
\* delivered as not intersecting leaves its target observed and unrevealed.
C7_RevealedOnce ==
    /\ [](\A e \in RevealElems :
            /\ writes[e] <= 1
            /\ e \in animateIn <=> writes[e] = 1
            /\ e \in animateIn => e \notin observed
            /\ (ready /\ "IntersectionObserver" \in present /\ e \notin animateIn)
                   => e \in observed)
    /\ [][ \A e \in animateIn :
            /\ e \in animateIn'
            /\ animationDelay'[e] = animationDelay[e]
            /\ writes'[e] = writes[e] ]_vars
    /\ [][ ObserverCallback =>
            \A i \in 1 .. Len(queue) :
                ~queue[i].isIntersecting =>
                    /\ queue[i].target \in observed'
                    /\ queue[i].target \notin animateIn' ]_vars

\* a revealed element left the viewport again and nothing was queued for it
C7_Witness ==
    \E e \in RevealElems :
        /\ writes[e] = 1
        /\ e \in animateIn
        /\ e \notin observed
        /\ ~isIntersecting[e]
        /\ queue = <<>>

\* C8: the callback gives every intersecting entry the delay animationDelayMs
\* times the number of intersecting entries before it in the batch.
C8_DelayAmongIntersecting ==
    [][ ObserverCallback =>
            \A i \in Intersecting(queue) :
                animationDelay'[queue[i].target] =
                    animationDelayMs * Cardinality({j \in Intersecting(queue) : j < i}) ]_vars

\* C9: at most one frame callback is pending, and ticking is true exactly
\* when one is pending.
C9_GuardMatchesPending ==
    /\ rafPending <= 1
    /\ ticking <=> rafPending = 1

\* C10: no handler ends with an uncaught exception, whichever elements the
\* page lacks.
C10_NoExceptionPropagates == ~uncaught

\* what the callback of timer t has done when it returns
C11_Effect(t) ==
    /\ t.kind = "focus" => focused' = "modalInput"
    /\ (t.kind = "close" /\ ~modalThrows) => (~modalActive' /\ bodyOverflow' = "")
    /\ t.kind = "fade" => t.id \in faded'
    /\ t.kind = "detach" => \A i \in 1 .. Len(attached') : attached'[i] # t.id

\* C11: no timer is cancelled and each fires exactly once.  A step that is
\* not a timer callback keeps every pending timer (the passing of time only
\* lowers its wait); a callback removes its own timer, once, and nothing
\* else, and has its effect whatever the modal calls in between were: focus
\* moves to the input even after close(), the close timer closes the modal
\* even when it was closed and reopened.  While timers are pending time
\* goes on until one is due, and the due ones all run before it goes on
\* further: every timer runs, when its own wait is over.  A notification
\* has its fade and its detach timer once each.
C11_NoTimerCancelled ==
    /\ [][ \/ \E t \in Due :
                /\ TimerFire(t)
                /\ (timers (-) SetToBag({t})) \sqsubseteq timers'
                /\ CopiesIn(t, timers') = CopiesIn(t, timers) - 1
                /\ C11_Effect(t)
           \/ /\ Due = {}
              /\ BagCardinality(timers') = BagCardinality(timers)
              /\ \A t \in BagToSet(timers) :
                     CopiesIn(Timer(t.kind, t.rem - TickMs, t.id), timers')
                         = CopiesIn(t, timers)
           \/ timers \sqsubseteq timers' ]_vars
    /\ (timers # EmptyBag) ~> (Due # {})
    /\ (Due # {}) ~> (Due = {})
    /\ [](\A n \in 1 .. Len(notifications) :
            BagCardinality([t \in {u \in BagToSet(timers) : u.id = n} |-> timers[t]]) <= 1)

\* CloseDelay after a successful submit the close timer is due on a modal
\* that was closed and, this very moment, opened again (the focus timer of
\* that open() still has its full wait)
C11_Witness ==
    /\ modalActive
    /\ lastCalls = <<"close", "open">>
    /\ Timer("close", 0, 0) \in BagToSet(timers)
    /\ Timer("focus", FocusDelay, 0) \in BagToSet(timers)

IsAttached(n) == \E i \in 1 .. Len(attached) : attached[i] = n

HasTimer(k, n) == \E t \in Pending(k) : t.id = n

C13_AnchorScroll ==
    [][ \A h \in Hrefs, hh \in HeaderHeights, top \in TargetOffsets :
            AnchorClick(h, hh, top) =>
                IF h # "#" /\ "section" \in present
                THEN /\ defaultPrevented'
                     /\ scrollRequest' = <<top - hh>>
                ELSE /\ ~defaultPrevented'
                     /\ UNCHANGED scrollRequest ]_vars

\* C13 on a page with a header
C13_AnchorScrollWithHeader ==
    [][ \A h \in Hrefs, hh \in HeaderHeights, top \in TargetOffsets :
            (AnchorClick(h, hh, top) /\ ~headerThrows) =>
                IF h # "#" /\ "section" \in present
                THEN /\ defaultPrevented'
                     /\ scrollRequest' = <<top - hh>>
                ELSE /\ ~defaultPrevented'
                     /\ UNCHANGED scrollRequest ]_vars

\* C14: an Escape keydown while the modal is closed leaves the modal class
\* and the body overflow as they are; a keydown of another key leaves the
\* whole modal state and the timers as they are; an overlay click, a click
\* on the close control and an Escape keydown while the modal is open each
\* leave the modal without its active class and the body overflow empty.
C14_EscapeOnlyWhileOpen ==
    [][ /\ (handleKeyboard("Escape") /\ ~modalActive) =>
               UNCHANGED <<modalActive, bodyOverflow>>
        /\ \A k \in Keys \ {"Escape"} :
               handleKeyboard(k) => UNCHANGED <<modalVars, timers>>
        /\ (OverlayClick \/ CloseClick \/ (handleKeyboard("Escape") /\ modalActive)) =>
               /\ ~modalActive'
               /\ bodyOverflow' = "" ]_vars

\* the modal was opened and then closed on a page with neither close
\* control nor overlay and with no timer that closes it: by Escape
C14_Witness ==
    /\ "modalClose" \notin present
    /\ "modalOverlay" \notin present
    /\ notifications = <<>>
    /\ lastCalls = <<"open", "close">>
    /\ ~modalActive
    /\ bodyOverflow = ""

\* the submit finds a field empty or the email off the pattern
C15_Failed ==
    /\ handleFormSubmit
    /\ ~inputsThrow
    /\ nameValue = <<>> \/ emailValue = <<>> \/ ~C4_Pattern(emailValue)

\* C15: a submit whose validation fails emits one error notification, with
\* its fade timer, and does nothing else: the fields keep their values, the
\* modal keeps its class, the body its overflow and the focus its place, no
\* close timer is scheduled and no other pending timer is touched.
C15_FailureOnlyNotifies ==
    [][ C15_Failed =>
            /\ Len(notifications') = Len(notifications) + 1
            /\ notifications'[Len(notifications')].type = "error"
            /\ SubSeq(notifications', 1, Len(notifications)) = notifications
            /\ UNCHANGED <<formVars, modalVars, uncaught>>
            /\ Pending("close")' = Pending("close")
            /\ timers' = timers (+) SetToBag({Timer("fade", NotificationVisible,
                                                     Len(notifications'))}) ]_vars

\* a submit with a name and an email without a dot, made while the modal was
\* open: the error is shown, the fields and the modal are as they were
C15_Witness ==
    /\ modalActive
    /\ bodyOverflow = "hidden"
    /\ nameValue = <<"a">>
    /\ emailValue = InvalidEmail
    /\ notifications # <<>>
    /\ notifications[Len(notifications)] = Notification(MsgEmail, "error")
    /\ Timer("fade", NotificationVisible, Len(notifications)) \in BagToSet(timers)
    /\ Pending("close") = {}

\* C16: once init() has run, whenever the guard flag is false the header
\* carries 'scrolled' iff the current offset is above scrollThreshold and
\* the button is visible iff it is above 3 * scrollThreshold (for the
\* elements the page has).
C16_ClassesFollowOffset ==
    (ready /\ ~ticking) =>
        /\ "header" \in present => (headerScrolled <=> scrollY > scrollThreshold)
        /\ "backToTop" \in present => (backToTopVisible <=> scrollY > 3 * scrollThreshold)

\* C16 on a page with a header and a button
C16_ClassesFollowOffsetWithBoth ==
    {"header", "backToTop"} \subseteq present => C16_ClassesFollowOffset

\* C17: the modal carries 'modal--active' iff the body overflow style is
\* 'hidden', in every state reached from the closed modal by trigger clicks,
\* overlay and close clicks, keys, submits and timer callbacks.
C17_ActiveIffScrollLocked == modalActive <=> bodyOverflow = "hidden"

\* the modal was closed and opened again after a submit was answered, and
\* the page is locked
C17_Witness ==
    /\ lastCalls = <<"close", "open">>
    /\ notifications # <<>>
    /\ modalActive
    /\ bodyOverflow = "hidden"

\* C18: the fade callback of a notification fades that notification and no
\* other and detaches none; its detach callback detaches that notification
\* and no other and fades none; so an attached notification is unfaded
\* exactly while its own fade timer runs and faded exactly while its own
\* detach timer runs, and the latest notification is attached as long as
\* one of its two timers runs, whatever the timers of earlier ones do.
C18_TimersOwnNotification ==
    /\ [][ \A t \in Due :
              /\ (t.kind = "fade" /\ TimerFire(t)) =>
                     /\ faded' = faded \cup {t.id}
                     /\ attached' = attached
              /\ (t.kind = "detach" /\ TimerFire(t)) =>
                     /\ faded' = faded
                     /\ \A n \in 1 .. Len(notifications) :
                            (n # t.id /\ IsAttached(n)) =>
                                \E i \in 1 .. Len(attached') : attached'[i] = n ]_vars
    /\ [](\A n \in 1 .. Len(notifications) :
            /\ IsAttached(n) =>
                   \/ HasTimer("fade", n) /\ n \notin faded
                   \/ HasTimer("detach", n) /\ n \in faded
            /\ (n = Len(notifications) /\ (HasTimer("fade", n) \/ HasTimer("detach", n)))
                   => IsAttached(n))

\* both timers of the replaced first notification have run, and the second
\* one is still attached and unfaded with its fade timer pending
C18_Witness ==
    /\ Len(notifications) = 2
    /\ 1 \in faded
    /\ ~HasTimer("fade", 1) /\ ~HasTimer("detach", 1)
    /\ attached = <<2>>
    /\ 2 \notin faded
    /\ HasTimer("fade", 2)

\* the pending timers of kind k, with their multiplicity
TimersOf(k) == [t \in Pending(k) |-> timers[t]]

\* C19: at most one timer of a debounced function is pending, and it is the
\* one of the latest call; a call invokes nothing, cancels the pending timer
\* and starts one with the full wait; func is invoked only by the timer of
\* the latest call when its wait is over, with the argument of that call,
\* and no timer is pending after it; once calls are pending, a later moment
\* has func invoked with the argument of the latest call and nothing pending.
C19_DebounceLastCallOnly ==
    /\ [](/\ BagCardinality(TimersOf("later")) <= 1
          /\ \A t \in Pending("later") : t.id = Len(dbCalls) /\ t.id = dbTimeout
          /\ Len(dbInvoked) <= Len(dbCalls))
    /\ [][ \A a \in Args : DebounceCall(a) =>
              /\ dbInvoked' = dbInvoked
              /\ TimersOf("later")' =
                     SetToBag({Timer("later", DebounceWait, Len(dbCalls) + 1)}) ]_vars
    /\ [][ dbInvoked' # dbInvoked =>
              /\ Timer("later", 0, Len(dbCalls)) \in BagToSet(timers)
              /\ dbInvoked' = Append(dbInvoked, dbCalls[Len(dbCalls)])
              /\ Pending("later")' = {} ]_vars
    /\ (Pending("later") # {}) ~>
           /\ Pending("later") = {}
           /\ dbInvoked # <<>>
           /\ dbInvoked[Len(dbInvoked)] = dbCalls[Len(dbCalls)]

\* a burst of two calls was answered by one invocation, with the argument
\* of the second call
C19_Witness ==
    /\ dbCalls = <<"x", "y">>
    /\ dbInvoked = <<"y">>
    /\ Pending("later") = {}

\* C20: the latch is set exactly while its reset timer is pending, and at
\* most one is; a call made with the latch clear invokes func at once with
\* its argument, sets the latch and starts the reset timer with the full
\* limit; a call made with the latch set changes nothing; the latch is
\* cleared only by the reset timer when the limit is over; and a set latch is
\* cleared at some later moment.
C20_ThrottleLatch ==
    /\ [](/\ BagCardinality(TimersOf("latch")) <= 1
          /\ inThrottle <=> Pending("latch") # {}
          /\ Len(thInvoked) <= Len(thCalls))
    /\ [][ \A a \in Args : ThrottleCall(a) =>
              IF inThrottle
              THEN UNCHANGED <<thInvoked, inThrottle, timers>>
              ELSE /\ thInvoked' = Append(thInvoked, a)
                   /\ inThrottle'
                   /\ TimersOf("latch")' = SetToBag({Timer("latch", ThrottleLimit, 0)}) ]_vars
    /\ [][ (inThrottle /\ ~inThrottle') =>
              /\ Timer("latch", 0, 0) \in BagToSet(timers)
              /\ Pending("latch")' = {}
              /\ thInvoked' = thInvoked ]_vars
    /\ inThrottle ~> ~inThrottle

\* three calls: the first invoked func, the second fell into the window and
\* was dropped, the third came after the reset and invoked func again
C20_Witness ==
    /\ thCalls = <<"x", "y", "x">>
    /\ thInvoked = <<"x", "x">>
    /\ inThrottle
====
